---- MODULE Spec2Model ----
(***************************************************************************)
(* A model of cellopt/shelxlParser.py: the SHELXL instruction-file parser  *)
(* (ShelxlParser.read, the LineParser dispatcher and its sub-parsers, the  *)
(* Reader line source), the symmetry algebra (SymmetryElement) and the     *)
(* structure model (ShelxlMolecule).                                       *)
(*                                                                         *)
(* Python values are modelled as follows.                                  *)
(*   str      a TLA+ string; the str methods the code uses are defined     *)
(*            below character by character.                                *)
(*   float    an integer count of 1/Scale units (fixed point).  The input  *)
(*            vocabularies only hold decimals of at most three fractional  *)
(*            digits and fractions a/b that are exact in these units, so   *)
(*            the fixed-point value is the exact value of the double.      *)
(*   None     <<>> for objects; an optional number is <<>> or <<v>>.       *)
(*   raise    an operator that can raise returns a record with field exc:  *)
(*            NoExc, or the name of the exception class.                   *)
(***************************************************************************)
EXTENDS Integers, Sequences, FiniteSets, TLC

\* The number of lines the outer input file may hold.
MaxLines == 3

\* One unit of the fixed-point numbers is 1/Scale.
Scale == 10 * 10 * 10

None == <<>>
Some(v) == <<v>>
NoExc == "no exception"

\* v handed to F as a value: F(v), with v evaluated once.
With(v, F(_)) == CHOOSE r \in {F(x) : x \in {v}} : TRUE

(***************************************************************************)
(* Python str methods                                                      *)
(***************************************************************************)
Char(s, i) == SubSeq(s, i, i)

\* The characters str.split() and str.rstrip() treat as white space.
Whitespace == {" ", "\t", "\n"}

RECURSIVE rstripEnd(_, _, _)
\* The length of s[:n] without its trailing characters of chars.
rstripEnd(s, chars, n) ==
    IF n > 0 /\ Char(s, n) \in chars THEN rstripEnd(s, chars, n - 1) ELSE n

\* s.rstrip(chars)
rstrip(s, chars) == SubSeq(s, 1, rstripEnd(s, chars, Len(s)))

endswith(s, c) == Len(s) > 0 /\ Char(s, Len(s)) = c

RECURSIVE splitFrom(_, _, _)
\* The words of s from position i on, the current word having begun at start.
splitFrom(s, i, start) ==
    IF i > Len(s)
    THEN IF start = i THEN <<>> ELSE <<SubSeq(s, start, i - 1)>>
    ELSE IF Char(s, i) \in Whitespace
         THEN (IF start = i THEN <<>> ELSE <<SubSeq(s, start, i - 1)>>)
              \o splitFrom(s, i + 1, i + 1)
         ELSE splitFrom(s, i + 1, start)

\* s.split(): the words of s, separated by runs of white space.
split(s) == splitFrom(s, 1, 1)

RECURSIVE splitSepFrom(_, _, _, _)
splitSepFrom(s, sep, i, start) ==
    IF i > Len(s)
    THEN <<SubSeq(s, start, i - 1)>>
    ELSE IF Char(s, i) = sep
         THEN <<SubSeq(s, start, i - 1)>> \o splitSepFrom(s, sep, i + 1, i + 1)
         ELSE splitSepFrom(s, sep, i + 1, start)

\* s.split(sep) for a one-character separator: empty parts are kept.
splitSep(s, sep) == splitSepFrom(s, sep, 1, 1)

RECURSIVE joinFrom(_, _, _)
joinFrom(words, sep, i) ==
    IF i > Len(words) THEN ""
    ELSE IF i = Len(words) THEN words[i]
    ELSE words[i] \o sep \o joinFrom(words, sep, i + 1)

\* sep.join(words)
join(words, sep) == joinFrom(words, sep, 1)

RECURSIVE replaceFrom(_, _, _, _)
replaceFrom(s, old, new, i) ==
    IF i > Len(s) THEN ""
    ELSE (IF Char(s, i) = old THEN new ELSE Char(s, i)) \o replaceFrom(s, old, new, i + 1)

\* s.replace(old, new) for a one-character old.
replace(s, old, new) == replaceFrom(s, old, new, 1)

UpperCaseLetters == "ABCDEFGHIJKLMNOPQRSTUVWXYZ"
LowerCaseLetters == "abcdefghijklmnopqrstuvwxyz"

\* The position of character c in string s, 0 when it is absent (s.find(c) + 1).
IndexIn(s, c) ==
    IF \E i \in 1..Len(s) : Char(s, i) = c
    THEN CHOOSE i \in 1..Len(s) : Char(s, i) = c /\ \A j \in 1..(i - 1) : Char(s, j) # c
    ELSE 0

upperChar(c) ==
    With(IndexIn(LowerCaseLetters, c), LAMBDA i :
        IF i > 0 THEN Char(UpperCaseLetters, i) ELSE c)

lowerChar(c) ==
    With(IndexIn(UpperCaseLetters, c), LAMBDA i :
        IF i > 0 THEN Char(LowerCaseLetters, i) ELSE c)

RECURSIVE upperFrom(_, _)
upperFrom(s, i) == IF i > Len(s) THEN "" ELSE upperChar(Char(s, i)) \o upperFrom(s, i + 1)

\* s.upper()
upper(s) == upperFrom(s, 1)

RECURSIVE lowerFrom(_, _)
lowerFrom(s, i) == IF i > Len(s) THEN "" ELSE lowerChar(Char(s, i)) \o lowerFrom(s, i + 1)

\* s.lower()
lower(s) == lowerFrom(s, 1)

\* s.partition(c): <<before, separator, after>> at the first c, <<s, "", "">> without one.
partition(s, c) ==
    With(IndexIn(s, c), LAMBDA i :
        IF i = 0 THEN <<s, "", "">>
        ELSE <<SubSeq(s, 1, i - 1), c, SubSeq(s, i + 1, Len(s))>>)

(***************************************************************************)
(* Python numbers: float(), int(), eval() of a fraction, str() of a float  *)
(***************************************************************************)
Digits == "0123456789"
IsDigit(c) == IndexIn(Digits, c) > 0
DigitVal(c) == IndexIn(Digits, c) - 1

AllDigits(s) == \A i \in 1..Len(s) : IsDigit(Char(s, i))

RECURSIVE NatValTo(_, _)
\* The number the first n characters of a string of digits denote.
NatValTo(s, n) == IF n = 0 THEN 0 ELSE 10 * NatValTo(s, n - 1) + DigitVal(Char(s, n))

\* The number a string of digits denotes ("" denotes 0).
NatVal(s) == NatValTo(s, Len(s))

\* The fractional digits f of a decimal, in units of 1/Scale.
FracVal(f) == NatVal(SubSeq(f \o "000", 1, 3))

Unsigned(s) == IF Len(s) > 0 /\ Char(s, 1) \in {"+", "-"} THEN SubSeq(s, 2, Len(s)) ELSE s
SignOf(s) == IF Len(s) > 0 /\ Char(s, 1) = "-" THEN -1 ELSE 1

\* Whether float(s) succeeds: an optional sign, then digits with at most one point
\* and at least one digit.  (Exponents, inf, nan do not occur in the vocabularies.)
IsFloat(s) ==
    With(splitSep(Unsigned(s), "."), LAMBDA parts :
        /\ Len(parts) \in {1, 2}
        /\ \A k \in 1..Len(parts) : AllDigits(parts[k])
        /\ \E k \in 1..Len(parts) : Len(parts[k]) > 0)

\* float(s), for IsFloat(s).
FloatVal(s) ==
    With(splitSep(Unsigned(s), "."), LAMBDA parts :
        SignOf(s) * (NatVal(parts[1]) * Scale
                     + (IF Len(parts) = 2 THEN FracVal(parts[2]) ELSE 0)))

\* Whether int(s) succeeds on a string: an optional sign and at least one digit.
IsInt(s) == Len(Unsigned(s)) > 0 /\ AllDigits(Unsigned(s))
IntVal(s) == SignOf(s) * NatVal(Unsigned(s))

RECURSIVE NatStr(_)
NatStr(n) == IF n < 10 THEN Char(Digits, n + 1) ELSE NatStr(n \div 10) \o Char(Digits, (n % 10) + 1)

\* The three fractional digits of f/Scale, without trailing zeros ("0" for none).
FracStr(f) ==
    IF f = 0 THEN "0"
    ELSE rstrip(Char(Digits, (f \div 100) + 1) \o Char(Digits, ((f \div 10) % 10) + 1)
                    \o Char(Digits, (f % 10) + 1), {"0"})

\* str(x) of a float x: the shortest decimal, with at least one fractional digit.
Str(v) ==
    With(IF v < 0 THEN -v ELSE v, LAMBDA a :
        (IF v < 0 THEN "-" ELSE "") \o NatStr(a \div Scale) \o "." \o FracStr(a % Scale))

(***************************************************************************)
(* SymmetryElement (lines 4-114).  An operation is a record                *)
(*   symms   the component expressions it was built from,                  *)
(*   matrix  three rows, one column per component (np.matrix(lines)        *)
(*           transposed),                                                  *)
(*   trans   one optional number per component (None where _float fell     *)
(*           through without a value).                                     *)
(* The diagnostic counter symm_ID is not part of the model.                *)
(***************************************************************************)
\* _partition (lines 102-114): <<coefficient of char, what is left of symm>>.
_partition(symm, char) ==
    With(partition(symm, char), LAMBDA parts :
        IF Len(parts[2]) > 0
        THEN IF (IF Len(parts[1]) > 0 THEN Char(parts[1], Len(parts[1])) ELSE "+") = "-"
             THEN <<-1, SubSeq(parts[1], 1, Len(parts[1]) - 1) \o parts[3]>>
             ELSE <<1, replace(parts[1] \o parts[3], "+", "")>>
        ELSE <<0, parts[1]>>)

RECURSIVE DivideAll(_, _, _)
\* q / ds[i] / ds[i+1] / ... in fixed point; the caller excludes zero divisors.
DivideAll(q, ds, i) ==
    IF i > Len(ds) THEN q ELSE DivideAll((q * Scale) \div ds[i], ds, i + 1)

\* eval(string.replace('/', './') + '.') (lines 99-100): every operand must read as
\* a float literal once the point is added, that is, be an integer numeral.
EvalFraction(string) ==
    With(splitSep(string, "/"), LAMBDA parts :
        IF \E k \in 1..Len(parts) : ~IsInt(parts[k])
        THEN [exc |-> "SyntaxError", val |-> None]
        ELSE With([k \in 1..Len(parts) |-> IntVal(parts[k]) * Scale], LAMBDA vals :
                 IF \E k \in 2..Len(vals) : vals[k] = 0
                 THEN [exc |-> "ZeroDivisionError", val |-> None]
                 ELSE [exc |-> NoExc, val |-> Some(DivideAll(vals[1], vals, 2))]))

\* _float (lines 94-100).  Without a '/' the except branch ends without a return
\* statement: the method returns None and raises nothing.
_float(string) ==
    IF IsFloat(string)
    THEN [exc |-> NoExc, val |-> Some(FloatVal(string))]
    ELSE IF IndexIn(string, "/") > 0
         THEN EvalFraction(string)
         ELSE [exc |-> NoExc, val |-> None]

\* _parse_line (lines 81-92): [exc, line (the three coefficients), trans].
_parse_line(symm) ==
    With(_partition(replace(lower(symm), " ", ""), "x"), LAMBDA px :
    With(_partition(px[2], "y"), LAMBDA py :
    With(_partition(py[2], "z"), LAMBDA pz :
    With(IF Len(pz[2]) > 0 THEN _float(pz[2]) ELSE [exc |-> NoExc, val |-> Some(0)], LAMBDA t :
        [exc |-> t.exc, line |-> <<px[1], py[1], pz[1]>>, trans |-> t.val]))))

\* np.matrix(lines).transpose(): lines has n rows of 3, the result 3 rows of n.
Transpose(lines) == [i \in 1..3 |-> [j \in 1..Len(lines) |-> lines[j][i]]]

NegateMatrix(m) == [i \in 1..Len(m) |-> [j \in 1..Len(m[i]) |-> -(m[i][j])]]

\* The first exception among results, NoExc when there is none.
FirstExc(results) ==
    With({k \in 1..Len(results) : results[k].exc # NoExc}, LAMBDA bad :
        IF bad = {} THEN NoExc ELSE results[CHOOSE k \in bad : \A j \in bad : k <= j].exc)

\* SymmetryElement.__init__ (lines 11-28): [exc, val].
SymmetryElement(symms, centric) ==
    With([k \in 1..Len(symms) |-> _parse_line(symms[k])], LAMBDA parsed :
    With(Transpose([k \in 1..Len(parsed) |-> parsed[k].line]), LAMBDA matrix :
    With([k \in 1..Len(parsed) |-> parsed[k].trans], LAMBDA trans :
        IF FirstExc(parsed) # NoExc
        THEN [exc |-> FirstExc(parsed), val |-> None]
        ELSE IF ~centric
        THEN [exc |-> NoExc, val |-> [symms |-> symms, matrix |-> matrix, trans |-> trans]]
        ELSE IF \E k \in 1..Len(trans) : trans[k] = None
        THEN [exc |-> "TypeError", val |-> None]     \* self.trans *= -1 on a None
        ELSE [exc |-> NoExc,
              val |-> [symms |-> symms, matrix |-> NegateMatrix(matrix),
                       trans |-> [k \in 1..Len(trans) |-> Some(-(trans[k][1]))]]])))

\* One term of a row in toShelxl (lines 72-75): the sign and the axis letter.
ShelxlTerm(coefficient, j) ==
    IF coefficient = 0 THEN ""
    ELSE IF coefficient < 0 THEN "-" \o Char("XYZ", j)
    ELSE "+" \o Char("XYZ", j)

\* The text of row i (1..3) in toShelxl (lines 69-77).
ShelxlRow(op, i) ==
    (IF op.trans[i] # None /\ op.trans[i][1] # 0 THEN Str(op.trans[i][1]) ELSE "")
        \o ShelxlTerm(op.matrix[i][1], 1) \o ShelxlTerm(op.matrix[i][2], 2)
        \o ShelxlTerm(op.matrix[i][3], 3)

\* toShelxl (lines 61-79): [exc, text].  It reads matrix[i, j] and trans[i] for
\* i, j < 3, which an operation of fewer than three components does not have.
toShelxl(op) ==
    IF Len(op.trans) < 3
    THEN [exc |-> "IndexError", text |-> ""]
    ELSE [exc |-> NoExc,
          text |-> join(<<ShelxlRow(op, 1), ShelxlRow(op, 2), ShelxlRow(op, 3)>>, ", ")]

\* applyLattSymm (lines 47-58): [exc, val].  The copy is built by serializing and
\* reparsing; its trans is replaced by the list of the three sums.
applyLattSymm(self, lattSymm) ==
    With(toShelxl(self), LAMBDA text :
        IF text.exc # NoExc THEN [exc |-> text.exc, val |-> None]
        ELSE With(SymmetryElement(splitSep(text.text, ","), FALSE), LAMBDA newSymm :
                 IF newSymm.exc # NoExc THEN [exc |-> newSymm.exc, val |-> None]
                 ELSE IF \E k \in 1..3 : self.trans[k] = None \/ lattSymm.trans[k] = None
                 THEN [exc |-> "TypeError", val |-> None]
                 ELSE [exc |-> NoExc,
                       val |-> [newSymm.val EXCEPT
                                  !.trans = [k \in 1..3 |->
                                      Some(self.trans[k][1] + lattSymm.trans[k][1])]]]))

\* A lattice-centering translation of LATTDICT (lines 493-502).
LattOp(a, b, c) == SymmetryElement(<<a, b, c>>, FALSE).val

\* LattParser.LATTDICT (lines 493-502).
LATTDICT ==
    [n \in 1..7 |->
        CASE n = 2 -> <<LattOp(".5", ".5", ".5")>>
          [] n = 4 -> <<LattOp(".5", ".5", "0"), LattOp(".5", "0", ".5"), LattOp("0", ".5", ".5")>>
          [] n = 5 -> <<LattOp("0", ".5", ".5")>>
          [] n = 6 -> <<LattOp(".5", "0", ".5")>>
          [] n = 7 -> <<LattOp(".5", ".5", "0")>>
          [] OTHER -> <<>>]

(***************************************************************************)
(* ShelxlMolecule (lines 146-277) and the records the sub-parsers commit.  *)
(* An operator that models a method of the current molecule takes the      *)
(* molecule and returns [exc, mol]: mol holds what the method had          *)
(* committed when it returned or raised.                                   *)
(***************************************************************************)
\* ShelxlMolecule.__init__ (lines 147-159); waveLength and z are attributes that
\* exist only once setWavelength and setZ have run.
ShelxlMolecule ==
    [sfacs |-> <<>>, customSfacData |-> <<>>, atoms |-> <<>>, qPeaks |-> <<>>,
     cell |-> <<>>, cerr |-> <<>>, lattOps |-> <<>>, symms |-> <<>>,
     centric |-> FALSE, eqivs |-> <<>>, dfixs |-> <<>>, dfixErr |-> 20,
     waveLength |-> None, z |-> None]

AllFloat(words) == \A k \in 1..Len(words) : IsFloat(words[k])
Floats(words) == [k \in 1..Len(words) |-> FloatVal(words[k])]

\* int(x) of a float x: truncation towards zero.
IntOfFloat(v) == IF v < 0 THEN -((-v) \div Scale) ELSE v \div Scale

\* CellParser.finished (lines 456-459) with setCell and setWavelength (184-188).
CellFinished(mol, body) ==
    With(Tail(split(body)), LAMBDA words :
        IF ~AllFloat(words) THEN [exc |-> "ValueError", mol |-> mol]
        ELSE IF Len(words) = 0
        THEN [exc |-> "IndexError", mol |-> [mol EXCEPT !.cell = <<>>]]
        ELSE With(Floats(words), LAMBDA data :
                 [exc |-> NoExc,
                  mol |-> [mol EXCEPT !.cell = Tail(data), !.waveLength = Some(data[1])]]))

\* CerrParser.finished (lines 465-468) with setCerr and setZ (190-194).
CerrFinished(mol, body) ==
    With(Tail(split(body)), LAMBDA words :
        IF ~AllFloat(words) THEN [exc |-> "ValueError", mol |-> mol]
        ELSE IF Len(words) = 0
        THEN [exc |-> "IndexError", mol |-> [mol EXCEPT !.cerr = <<>>]]
        ELSE With(Floats(words), LAMBDA data :
                 [exc |-> NoExc,
                  mol |-> [mol EXCEPT !.cerr = Tail(data), !.z = Some(IntOfFloat(data[1]))]]))

\* SfacParser.finished (lines 474-489) with addSfac and addCustomSfac (196-204).
SfacFinished(mol, body) ==
    With(Tail(split(body)), LAMBDA words :
        IF ~(\E k \in 1..Len(words) : IsFloat(words[k]))
        THEN [exc |-> NoExc, mol |-> [mol EXCEPT !.sfacs = @ \o words]]
        ELSE IF ~AllFloat(Tail(words))
        THEN [exc |-> "ValueError", mol |-> mol]
        ELSE [exc |-> NoExc,
              mol |-> [mol EXCEPT
                         !.customSfacData =
                             (words[1] :> [symbol |-> words[1], data |-> Floats(Tail(words))]) @@ @,
                         !.sfacs = Append(@, words[1])]])

\* LattParser.finished (lines 505-511) with setCentric and setLattOps (218-222).
LattFinished(mol, body) ==
    With(split(body), LAMBDA data :
        IF ~IsInt(data[Len(data)]) THEN [exc |-> "ValueError", mol |-> mol]
        ELSE With(IntVal(data[Len(data)]), LAMBDA latt :
             With(IF latt > 0 THEN [mol EXCEPT !.centric = TRUE] ELSE mol, LAMBDA flagged :
                 IF (IF latt < 0 THEN -latt ELSE latt) \notin 1..7
                 THEN [exc |-> "KeyError", mol |-> flagged]
                 ELSE [exc |-> NoExc,
                       mol |-> [flagged EXCEPT
                                  !.lattOps = LATTDICT[IF latt < 0 THEN -latt ELSE latt]]])))

\* addSymm with the second loop over lattOps (lines 215-216) left out: the
\* centrosymmetric element is appended without lattice copies after it.
addSymmWithoutSecondLoop(mol, symmData) ==
    With(SymmetryElement(symmData, FALSE), LAMBDA newSymm :
        IF newSymm.exc # NoExc THEN [exc |-> newSymm.exc, mol |-> mol]
        ELSE
        With([k \in 1..Len(mol.lattOps) |-> applyLattSymm(newSymm.val, mol.lattOps[k])],
             LAMBDA copies :
        With(Append(mol.symms, newSymm.val) \o [k \in 1..Len(copies) |-> copies[k].val],
             LAMBDA plain :
            IF FirstExc(copies) # NoExc
            THEN [exc |-> FirstExc(copies),
                  mol |-> [mol EXCEPT !.symms = Append(mol.symms, newSymm.val)]]
            ELSE IF ~mol.centric
            THEN [exc |-> NoExc, mol |-> [mol EXCEPT !.symms = plain]]
            ELSE With(SymmetryElement(symmData, TRUE), LAMBDA negated :
                     IF negated.exc # NoExc
                     THEN [exc |-> negated.exc, mol |-> [mol EXCEPT !.symms = plain]]
                     ELSE [exc |-> NoExc,
                           mol |-> [mol EXCEPT !.symms = Append(plain, negated.val)]]))))

\* ShelxlMolecule.addSymm (lines 206-216).  Both loops over lattOps copy newSymm.
addSymm(mol, symmData) ==
    With(SymmetryElement(symmData, FALSE), LAMBDA newSymm :
        IF newSymm.exc # NoExc THEN [exc |-> newSymm.exc, mol |-> mol]
        ELSE
        With([k \in 1..Len(mol.lattOps) |-> applyLattSymm(newSymm.val, mol.lattOps[k])],
             LAMBDA copies :
        With([k \in 1..Len(copies) |-> copies[k].val], LAMBDA vals :
        With(Append(mol.symms, newSymm.val), LAMBDA first :
            IF FirstExc(copies) # NoExc
            THEN [exc |-> FirstExc(copies), mol |-> [mol EXCEPT !.symms = first]]
            ELSE IF ~mol.centric
            THEN [exc |-> NoExc, mol |-> [mol EXCEPT !.symms = first \o vals]]
            ELSE With(SymmetryElement(symmData, TRUE), LAMBDA negated :
                     IF negated.exc # NoExc
                     THEN [exc |-> negated.exc, mol |-> [mol EXCEPT !.symms = first \o vals]]
                     ELSE [exc |-> NoExc,
                           mol |-> [mol EXCEPT
                                      !.symms = (first \o vals) \o <<negated.val>> \o vals]])))))

\* SymmParser.finished (lines 517-519).
SymmFinished(mol, body) ==
    With(splitSep(SubSeq(body, 5, Len(body)), ","), LAMBDA symmData : addSymm(mol, symmData))

\* The atom pairs of a DFIX instruction (lines 533-534): consecutive names, two by two.
DfixNamePairs(names) == [i \in 1..(Len(names) \div 2) |-> <<names[2 * i - 1], names[2 * i]>>]

\* DfixParser.finished (lines 525-538) with addDfix (224-225).  addDfix is called
\* inside the loop, once per pair, each time with the same list object pairs, so
\* every entry ends up holding all the pairs of the instruction.
DfixFinished(mol, body) ==
    With(split(SubSeq(body, 5, Len(body))), LAMBDA data :
        IF Len(data) = 0 THEN [exc |-> "IndexError", mol |-> mol]
        ELSE IF ~IsFloat(data[1]) THEN [exc |-> "ValueError", mol |-> mol]
        ELSE IF Len(data) = 1 THEN [exc |-> "IndexError", mol |-> mol]
        ELSE
        With(IsFloat(data[2]), LAMBDA hasErr :
        With(DfixNamePairs(SubSeq(data, IF hasErr THEN 3 ELSE 2, Len(data))), LAMBDA pairs :
        With([value |-> FloatVal(data[1]),
              err |-> IF hasErr THEN Some(FloatVal(data[2])) ELSE None,
              pairs |-> pairs], LAMBDA entry :
            [exc |-> NoExc,
             mol |-> [mol EXCEPT !.dfixs = @ \o [i \in 1..Len(pairs) |-> entry]]]))))

\* EqivParser.finished (lines 544-549) with addEqiv (227-229).
EqivFinished(mol, body) ==
    With(Tail(split(body)), LAMBDA data :
        IF Len(data) = 0 THEN [exc |-> "IndexError", mol |-> mol]
        ELSE With(SymmetryElement(splitSep(join(Tail(data), " "), ","), FALSE), LAMBDA symm :
                 IF symm.exc # NoExc THEN [exc |-> symm.exc, mol |-> mol]
                 ELSE [exc |-> NoExc,
                       mol |-> [mol EXCEPT !.eqivs = (data[1] :> symm.val) @@ @]]))

\* ShelxlAtom.__init__ (lines 126-140) with addAtom and addQPeak (178-182):
\* [exc, mol, atom].
ShelxlAtom(mol, line) ==
    With(split(line), LAMBDA words :
        IF Len(words) > 0 /\ ~AllFloat(Tail(words))
        THEN [exc |-> "ValueError", mol |-> mol, atom |-> None]
        ELSE IF Len(words) < 6
        THEN [exc |-> "IndexError", mol |-> mol, atom |-> None]
        ELSE
        With(Floats(Tail(words)), LAMBDA nums :
        With([name |-> words[1], sfac |-> nums[1], frac |-> SubSeq(nums, 2, 4),
              occ |-> <<(nums[5] \div Scale) * Scale, nums[5] % Scale>>,
              adp |-> SubSeq(nums, 6, Len(nums)),
              qPeak |-> upper(Char(words[1], 1)) = "Q"], LAMBDA atom :
            [exc |-> NoExc, atom |-> atom,
             mol |-> IF atom.qPeak THEN [mol EXCEPT !.qPeaks = Append(@, atom)]
                     ELSE [mol EXCEPT !.atoms = Append(@, atom)]])))

\* A dfixTable with (target, err) entered at row, col unless the field exists
\* (the try/except KeyError pairs of lines 252-260 and 265-273).
TableSetDefault(table, row, col, val) ==
    IF row \notin DOMAIN table THEN (row :> (col :> val)) @@ table
    ELSE IF col \in DOMAIN table[row] THEN table
    ELSE [table EXCEPT ![row] = (col :> val) @@ @]

RECURSIVE DfixPairs(_, _, _, _)
\* The loop over the pairs of one entry, from pair i on (lines 250-273): the key of
\* the first row is atom2 as written, upper-cased only afterwards.
DfixPairs(table, val, pairs, i) ==
    IF i > Len(pairs) THEN table
    ELSE With(upper(pairs[i][1]), LAMBDA atom1 :
         With(TableSetDefault(table, atom1, pairs[i][2], val), LAMBDA t1 :
         With(TableSetDefault(t1, upper(pairs[i][2]), atom1, val), LAMBDA t2 :
             DfixPairs(t2, val, pairs, i + 1))))

\* The err of an entry as line 248 replaces it: "if not err" takes None and 0 alike.
EffectiveErr(err, dfixErr) == IF err = None \/ err[1] = 0 THEN dfixErr ELSE err[1]

RECURSIVE DfixEntries(_, _, _, _)
\* The loop over dfixs, from entry i on (lines 247-273).
DfixEntries(table, dfixErr, dfixs, i) ==
    IF i > Len(dfixs) THEN table
    ELSE With(DfixPairs(table, <<dfixs[i].value, EffectiveErr(dfixs[i].err, dfixErr)>>,
                        dfixs[i].pairs, 1), LAMBDA t :
             DfixEntries(t, dfixErr, dfixs, i + 1))

\* ShelxlMolecule._finalizeDfix (lines 243-277): the table it builds and prints.
_finalizeDfix(mol) ==
    DfixEntries([n \in {upper(mol.atoms[k].name) : k \in 1..Len(mol.atoms)} |-> <<>>],
                mol.dfixErr, mol.dfixs, 1)

(***************************************************************************)
(* The dispatcher: LineParser and the sub-parsers (lines 309-549).         *)
(* A parser object is [class, body]; a call returns [exc, mol, parser,     *)
(* token]: the parser and the optional token it hands back to read, and    *)
(* the molecule as the call left it.                                       *)
(***************************************************************************)
\* The dict literal of LineParser.__init__ (lines 333-422), entry by entry.
CommandEntries == <<
    <<"REM", "doNothing">>, <<"BEDE", "doNothing">>, <<"MOLE", "doNothing">>,
    <<"TITL", "doNothing">>, <<"CELL", "CellParser">>, <<"ZERR", "CerrParser">>,
    <<"LATT", "doNothing">>, <<"SYMM", "SymmParser">>, <<"SFAC", "SfacParser">>,
    <<"UNIT", "doNothing">>, <<"TEMP", "doNothing">>, <<"L.S.", "doNothing">>,
    <<"BOND", "doNothing">>, <<"ACTA", "doNothing">>, <<"LIST", "doNothing">>,
    <<"FMAP", "doNothing">>, <<"PLAN", "doNothing">>, <<"WGHT", "doNothing">>,
    <<"FVAR", "doNothing">>, <<"SIMU", "doNothing">>, <<"RIGU", "doNothing">>,
    <<"SADI", "doNothing">>, <<"SAME", "doNothing">>, <<"DANG", "doNothing">>,
    <<"AFIX", "doNothing">>, <<"PART", "doNothing">>, <<"HKLF", "doNothing">>,
    <<"ABIN", "doNothing">>, <<"ANIS", "doNothing">>, <<"ANSC", "doNothing">>,
    <<"ANSR", "doNothing">>, <<"BASF", "doNothing">>, <<"BIND", "doNothing">>,
    <<"BLOC", "doNothing">>, <<"BUMP", "doNothing">>, <<"CGLS", "doNothing">>,
    <<"CHIV", "doNothing">>, <<"CONF", "doNothing">>, <<"CONN", "doNothing">>,
    <<"DAMP", "doNothing">>, <<"DEFS", "doNothing">>, <<"DELU", "doNothing">>,
    <<"DFIX", "DfixParser">>, <<"DISP", "doNothing">>, <<"EADP", "doNothing">>,
    <<"EQIV", "EqivParser">>, <<"EXTI", "doNothing">>, <<"EXYZ", "doNothing">>,
    <<"FEND", "doNothing">>, <<"FLAT", "doNothing">>, <<"FMAP", "doNothing">>,
    <<"FRAG", "doNothing">>, <<"FREE", "doNothing">>, <<"GRID", "doNothing">>,
    <<"HFIX", "doNothing">>, <<"HTAB", "doNothing">>, <<"ISOR", "doNothing">>,
    <<"LATT", "LattParser">>, <<"LAUE", "doNothing">>, <<"MERG", "doNothing">>,
    <<"MORE", "doNothing">>, <<"MPLA", "doNothing">>, <<"NCSY", "doNothing">>,
    <<"NEUT", "doNothing">>, <<"OMIT", "doNothing">>, <<"PLAN", "doNothing">>,
    <<"PRIG", "doNothing">>, <<"RESI", "doNothing">>, <<"RTAB", "doNothing">>,
    <<"SADI", "doNothing">>, <<"SAME", "doNothing">>, <<"SHEL", "doNothing">>,
    <<"SIMU", "doNothing">>, <<"SIZE", "doNothing">>, <<"SPEC", "doNothing">>,
    <<"STIR", "doNothing">>, <<"SUMP", "doNothing">>, <<"SWAT", "doNothing">>,
    <<"TWIN", "doNothing">>, <<"TWST", "doNothing">>, <<"WIGL", "doNothing">>,
    <<"WPDB", "doNothing">>, <<"XNPD", "doNothing">>, <<"REM", "doNothing">>,
    <<"Q", "doNothing">>, <<"END", "doNothing">>, <<"BEDE", "doNothing">>,
    <<"LONE", "doNothing">>, <<"+", "doNothing">>
    >>

\* A dict in which the earlier of two entries with one key stays: 'LATT'
\* (lines 339 and 390) would then name doNothing.
COMMANDSFirstEntryStays ==
    [k \in {CommandEntries[i][1] : i \in 1..Len(CommandEntries)} |->
        CommandEntries[CHOOSE i \in 1..Len(CommandEntries) :
                          /\ CommandEntries[i][1] = k
                          /\ \A j \in 1..(i - 1) : CommandEntries[j][1] # k][2]]

\* The dict the literal builds: of two entries with one key the later one stays.
COMMANDS ==
    [k \in {CommandEntries[i][1] : i \in 1..Len(CommandEntries)} |->
        CommandEntries[CHOOSE i \in 1..Len(CommandEntries) :
                          /\ CommandEntries[i][1] = k
                          /\ \A j \in (i + 1)..Len(CommandEntries) : CommandEntries[j][1] # k][2]]

\* ShelxlLine (lines 116-122), a ShelxlAtom as a token, and a bare str.
LineToken(line) == [type |-> "ShelxlLine", line |-> line, atom |-> None]
AtomToken(line, atom) == [type |-> "ShelxlAtom", line |-> line, atom |-> atom]
StrToken(line) == [type |-> "str", line |-> line, atom |-> None]

\* LineParser() (line 331): the idle dispatcher.
LineParser == [class |-> "LineParser", body |-> ""]

\* The finished method of each parser class; BaseParser.finished (lines 327-328),
\* which AtomParser inherits, does nothing.
Finished(class, mol, body) ==
    CASE class = "CellParser" -> CellFinished(mol, body)
      [] class = "CerrParser" -> CerrFinished(mol, body)
      [] class = "SfacParser" -> SfacFinished(mol, body)
      [] class = "LattParser" -> LattFinished(mol, body)
      [] class = "SymmParser" -> SymmFinished(mol, body)
      [] class = "DfixParser" -> DfixFinished(mol, body)
      [] class = "EqivParser" -> EqivFinished(mol, body)
      [] OTHER -> [exc |-> NoExc, mol |-> mol]

\* RETURNTYPE(self.body) (line 322): ShelxlAtom for AtomParser (line 447),
\* ShelxlLine for the other classes.
ReturnType(class, mol, body, previousParser) ==
    IF class = "AtomParser"
    THEN With(ShelxlAtom(mol, body), LAMBDA a :
             [exc |-> a.exc, mol |-> a.mol, parser |-> previousParser,
              token |-> IF a.exc = NoExc THEN Some(AtomToken(body, a.atom)) ELSE None])
    ELSE [exc |-> NoExc, mol |-> mol, parser |-> previousParser,
          token |-> Some(LineToken(body))]

\* BaseParser.get (lines 319-325).
get(self, previousParser, mol) ==
    IF ~endswith(self.body, "=")
    THEN With(Finished(self.class, mol, self.body), LAMBDA f :
             IF f.exc # NoExc
             THEN [exc |-> f.exc, mol |-> f.mol, parser |-> previousParser, token |-> None]
             ELSE ReturnType(self.class, f.mol, self.body, previousParser))
    ELSE [exc |-> NoExc, mol |-> mol, token |-> None,
          parser |-> [self EXCEPT !.body = SubSeq(self.body, 1, Len(self.body) - 1)]]

\* LineParser.doNothing (lines 442-443).
doNothing(self, mol, line) ==
    [exc |-> NoExc, mol |-> mol, parser |-> self, token |-> Some(LineToken(line))]

\* command.rstrip() for command = line[:4] (lines 428 and 433): the key looked up.
Keyword(line) == rstrip(SubSeq(line, 1, IF Len(line) < 4 THEN Len(line) ELSE 4), Whitespace)

\* The record a call parser(rawLine) finalizes, as [class, body], or None when it
\* finalizes none: the pending record on a sub-parser (lines 316 and 450), the
\* record the line opens and closes on the idle dispatcher (lines 433-439, 320-321).
Finalizes(self, rawLine) ==
    With(rstrip(rawLine, {"\n"}), LAMBDA line :
        IF self.class = "AtomParser"
        THEN [class |-> "AtomParser", body |-> self.body \o rawLine]
        ELSE IF self.class # "LineParser" THEN self
        ELSE IF Len(line) = 0 \/ Char(line, 1) = " " \/ endswith(line, "=") THEN None
        ELSE IF Keyword(line) \notin DOMAIN COMMANDS
        THEN [class |-> "AtomParser", body |-> line]
        ELSE IF COMMANDS[Keyword(line)] = "doNothing" THEN None
        ELSE [class |-> COMMANDS[Keyword(line)], body |-> line])

\* LineParser.__call__ (lines 424-440).  The try block encloses parser.get, so a
\* KeyError raised by a finalizer is caught like an unknown keyword and the line
\* is handed to AtomParser, with whatever the finalizer had committed.
LineParserCall(self, mol, rawLine) ==
    With(rstrip(rawLine, {"\n"}), LAMBDA line :
    With(Keyword(line), LAMBDA key :
        IF Len(line) = 0 THEN doNothing(self, mol, line)
        ELSE IF Char(line, 1) = " " THEN doNothing(self, mol, line)
        ELSE IF key \notin DOMAIN COMMANDS
        THEN get([class |-> "AtomParser", body |-> line], self, mol)
        ELSE IF COMMANDS[key] = "doNothing" THEN doNothing(self, mol, line)
        ELSE With(get([class |-> COMMANDS[key], body |-> line], self, mol), LAMBDA viaClass :
                 IF viaClass.exc = "KeyError"
                 THEN get([class |-> "AtomParser", body |-> line], self, viaClass.mol)
                 ELSE viaClass)))

\* BaseParser.__call__ (lines 315-317): the record that was awaiting a
\* continuation is finalized on its own body and the line is returned as it came.
BaseParserCall(self, mol, line) ==
    With(Finished(self.class, mol, self.body), LAMBDA f :
        [exc |-> f.exc, mol |-> f.mol, parser |-> LineParser,
         token |-> IF f.exc = NoExc THEN Some(StrToken(line)) ELSE None])

\* AtomParser.__call__ (lines 449-450).
AtomParserCall(self, mol, line) ==
    With(ShelxlAtom(mol, self.body \o line), LAMBDA a :
        [exc |-> a.exc, mol |-> a.mol, parser |-> LineParser,
         token |-> IF a.exc = NoExc THEN Some(AtomToken(self.body \o line, a.atom)) ELSE None])

\* parser(line) (line 294), by the class of the parser object.
ParserCall(self, mol, line) ==
    CASE self.class = "LineParser" -> LineParserCall(self, mol, line)
      [] self.class = "AtomParser" -> AtomParserCall(self, mol, line)
      [] OTHER -> BaseParserCall(self, mol, line)

(***************************************************************************)
(* The Reader (lines 552-640) and the files it opens.                      *)
(* The outer file is OuterFile; its lines are drawn, one at each read,     *)
(* from the vocabulary of the run, and it may end after any line.  The     *)
(* files an insertion directive can name are fixed: two that exist, one    *)
(* that exists but cannot be read, and any other name, which is missing.   *)
(***************************************************************************)
\* The file name of the call at line 644.
OuterFile == "s1.ins"

\* The content of the files that open (as readline returns it, line by line).
FileLines(name) ==
    CASE name = "a.ins" -> <<"REM a1\n", "+b.ins\n", "REM a3\n">>
      [] name = "b.ins" -> <<"+none.ins\n", "Q1 1 0.5 0.5 0.5 11 0.05\n">>
      [] OTHER -> <<>>

\* What open(fileName, 'r') does (line 623): it returns a file, or raises
\* FileNotFoundError, or raises another OSError such as PermissionError.
OpenOutcome(name) ==
    CASE name \in {"a.ins", "b.ins"} -> "file"
      [] name = "locked.ins" -> "PermissionError"
      [] OTHER -> "FileNotFoundError"

\* Reader.insert with an except branch that also drops the file inserted before.
ReaderInsertResetting(inserted, fileName) ==
    CASE OpenOutcome(fileName) = "file" ->
             [exc |-> NoExc, inserted |-> [name |-> fileName, pos |-> 0]]
      [] OpenOutcome(fileName) = "FileNotFoundError" ->
             [exc |-> NoExc, inserted |-> None]
      [] OTHER -> [exc |-> OpenOutcome(fileName), inserted |-> inserted]

\* Reader.insert (lines 615-625): [exc, inserted].  The single slot inserted is
\* overwritten by a file that opens; only FileNotFoundError is caught.
ReaderInsert(inserted, fileName) ==
    CASE OpenOutcome(fileName) = "file" ->
             [exc |-> NoExc, inserted |-> [name |-> fileName, pos |-> 0]]
      [] OpenOutcome(fileName) = "FileNotFoundError" ->
             [exc |-> NoExc, inserted |-> inserted]
      [] OTHER -> [exc |-> OpenOutcome(fileName), inserted |-> inserted]

\* Whether self.inserted.readline() (line 597) returns a line.
InsertedHasLine(ins) == ins # None /\ ins.pos < Len(FileLines(ins.name))

(***************************************************************************)
(* Input vocabularies: the lines an outer file of each family may hold.    *)
(***************************************************************************)
VocabContinuation ==
    {"CELL 1.54 10 10 10=\n", " 90 90 90\n", "CELL 1.54 10 10 10 90 90 90\n",
     "ZERR 4 0.001 0.001 0.001=\n", " 0 0 0\n",
     "SFAC C H=\n", " N O\n",
     "LATT=\n", " -2\n",
     "SYMM -X, 1/2+Y,=\n", " -Z\n",
     "DFIX 1.5 A1 A2=\n", " A2 A3\n",
     "EQIV $1 -X, -Y,=\n",
     "REM r\n"}

VocabAtoms ==
    {"C1 1 0.1 0.2 0.3 11 0.05\n", "Q1 1 0.5 0.5 0.5 11 0.05\n",
     "q2 1 0.25 0.25 0.25 10.5 0.01 0.02 0.03 0 0 0\n",
     "C2 1 0.1 0.2=\n", " 0.3 11=\n", " 0.3 11 0.05\n", " 0.05\n",
     "C3 1 0.1 0.2 0.3 11 0.05= \n",
     "XYZZ foo bar\n", "TITL t\n", "SFAC C H\n", "SFAC C 1.0 2.0\n",
     "HKLF 4\n", "END\n", "\n"}

VocabDfix ==
    {"DFIX 1.5 A1 A2\n", "DFIX 1.6 A2 A1\n", "DFIX 1.6 0.01 A1 A2 A2 A3\n",
     "DFIX 1.7 0 A1 A3\n", "DFIX 1.5 a1 a2\n", "DFIX 1.6 a2 a1\n",
     "DFIX 1.8 A1\n", "DFIX x A1 A2\n",
     "A1 1 0.1 0.2 0.3 11 0.05\n", "a2 1 0.2 0.2 0.3 11 0.05\n"}

VocabSymm ==
    {"LATT 1\n", "LATT -1\n", "LATT 2\n", "LATT -4\n", "LATT 3\n", "LATT 8\n",
     "SYMM X,Y,Z\n", "SYMM 1/2-X,+Y,1/2+Z\n", "SYMM -Y,X,Z+1/4\n", "SYMM X-Y,X,Z\n",
     "SYMM X,Y\n", "EQIV $1 -X, -Y, -Z\n", "EQIV $1 X, Y, 1/2+Z\n"}

VocabMalformed ==
    {"CELL 1.54 10 x 10 90 90 90\n", "ZERR 4 0.001 y 0.001 0 0 0\n", "LATT 1.0\n",
     "SYMM X+q,Y,Z\n", "SYMM X+a/b,Y,Z\n", "SYMM X+1/0,Y,Z\n",
     "DFIX x A1 A2\n", "EQIV $1 X+q,Y,Z\n", "C1 1 0.1 x 0.3 11 0.05\n",
     "LATT 1\n", "LATT -2\n", "SFAC C 1.0 H\n", "LATT 8 1 0.1 0.2 0.3 11\n"}

VocabInsert ==
    {"+a.ins\n", "+b.ins\n", "+none.ins\n", "+locked.ins\n",
     "REM o\n", "TITL o\n", "C1 1 0.1 0.2 0.3 11 0.05\n",
     "C2 1 0.1 0.2 0.3 11 0.05 =\n", "CELL 1.54 10 10 10 90 90 90=\n"}

\* Every lattice-type code of magnitude 1..7, with either sign.
VocabLatt ==
    {"LATT 1\n", "LATT 2\n", "LATT 3\n", "LATT 4\n", "LATT 5\n", "LATT 6\n", "LATT 7\n",
     "LATT -1\n", "LATT -2\n", "LATT -3\n", "LATT -4\n", "LATT -5\n", "LATT -6\n",
     "LATT -7\n"}

Vocabularies ==
    {VocabContinuation, VocabAtoms, VocabDfix, VocabSymm, VocabMalformed, VocabInsert,
     VocabLatt}

(***************************************************************************)
(* One call of ShelxlParser.read (lines 286-306).                          *)
(*   pc               "ready" before the call, "loop" inside the for loop, *)
(*                    "returned" or "raised" after it                      *)
(*   CURRENTMOLECULE  the class attribute (line 280)                       *)
(*   molecule         the local of line 304                                *)
(*   parser           the local parser object                              *)
(*   lines            self.lines, the tokens collected                     *)
(*   outer            the lines read from reader.fp so far                 *)
(*   inserted         reader.inserted: None or [name, pos]                 *)
(*   delivered        the lines readlines has yielded, each with the file  *)
(*                    and the position it came from                        *)
(*   result           the value the call returned                          *)
(*   raised           the exception that ended the call, or NoExc          *)
(*   dfixTable        the table _finalizeDfix built                        *)
(*   vocab            the vocabulary the outer file draws its lines from   *)
(* and, for the symmetry algebra taken on its own,                         *)
(*   symm             None during a parse call, otherwise a symmetry       *)
(*                    expression on its way through SymmetryElement,       *)
(*                    toShelxl and SymmetryElement again                   *)
(* and, for the geometry taken on its own,                                 *)
(*   dist             None during a parse call, otherwise a molecule's     *)
(*                    cell and two atoms on their way through distance     *)
(***************************************************************************)
VARIABLES pc, CURRENTMOLECULE, molecule, parser, lines, outer, inserted,
          delivered, result, raised, dfixTable, vocab, symm, dist

readVars == <<pc, CURRENTMOLECULE, molecule, parser, lines, outer, inserted,
              delivered, result, raised, dfixTable, vocab>>

vars == <<readVars, symm, dist>>

\* ShelxlParser() (lines 282-284), with CURRENTMOLECULE = None (line 280).
Init ==
    /\ pc = "ready"
    /\ CURRENTMOLECULE = None
    /\ molecule = None
    /\ parser = None
    /\ lines = <<>>
    /\ outer = <<>>
    /\ inserted = None
    /\ delivered = <<>>
    /\ result = None
    /\ raised = NoExc
    /\ dfixTable = <<>>
    /\ vocab \in Vocabularies
    /\ symm = None
    /\ dist = None

\* Lines 287-289: the current molecule is created, then the dispatcher and the reader.
ReadCall ==
    /\ pc = "ready"
    /\ pc' = "loop"
    /\ CURRENTMOLECULE' = ShelxlMolecule
    /\ parser' = LineParser
    /\ UNCHANGED <<molecule, lines, outer, inserted, delivered, result, raised,
                   dfixTable, vocab, symm, dist>>

\* line[0] is '+' (line 291): the line is an insertion directive.
IsDirective(n) == Char(n, 1) = "+"

\* line[1:-1] (line 292): the file name a directive gives.
InsertName(n) == SubSeq(n, 2, Len(n) - 1)

\* The line as the dispatcher receives it (line 293).
Rewritten(n) == IF IsDirective(n) THEN "+    " \o SubSeq(n, 2, Len(n)) ELSE n

\* The body of the for loop on the line n that readlines yielded (lines 291-296);
\* ins is reader.inserted after the yield.
LoopBody(n, ins) ==
    \E opened \in {IF IsDirective(n) THEN ReaderInsert(ins, InsertName(n))
                   ELSE [exc |-> NoExc, inserted |-> ins]} :
        IF opened.exc # NoExc
        THEN /\ pc' = "raised"
             /\ raised' = opened.exc
             /\ inserted' = opened.inserted
             /\ UNCHANGED <<CURRENTMOLECULE, parser, lines>>
        ELSE \E r \in {ParserCall(parser, CURRENTMOLECULE, Rewritten(n))} :
                 /\ inserted' = opened.inserted
                 /\ CURRENTMOLECULE' = r.mol
                 /\ IF r.exc # NoExc
                    THEN /\ pc' = "raised"
                         /\ raised' = r.exc
                         /\ UNCHANGED <<parser, lines>>
                    ELSE /\ pc' = "loop"
                         /\ raised' = NoExc
                         /\ parser' = r.parser
                         /\ lines' = lines \o r.token

\* One iteration of the loop of line 290: readlines (lines 594-602) yields the next
\* line of the inserted file while it has one, otherwise the next line of the
\* outer file, and the loop body runs on it.
LoopIteration ==
    /\ pc = "loop"
    /\ IF InsertedHasLine(inserted)
       THEN LET n == FileLines(inserted.name)[inserted.pos + 1]
                ins == [inserted EXCEPT !.pos = @ + 1]
            IN  /\ delivered' = Append(delivered,
                                       [line |-> n, src |-> inserted.name, idx |-> ins.pos])
                /\ outer' = outer
                /\ LoopBody(n, ins)
       ELSE /\ Len(outer) < MaxLines
            /\ \E n \in vocab :
                  /\ outer' = Append(outer, n)
                  /\ delivered' = Append(delivered,
                                         [line |-> n, src |-> OuterFile, idx |-> Len(outer) + 1])
                  /\ LoopBody(n, inserted)
    /\ UNCHANGED <<molecule, result, dfixTable, vocab, symm, dist>>

\* Both files are at their end and the generator executes raise StopIteration
\* (line 601).  Before Python 3.7 that ends the for loop: the with block exits,
\* finalize runs, the current molecule is cleared and read returns (lines 304-306);
\* it has no return statement, so the caller receives None.
EndOfLines ==
    /\ pc = "loop"
    /\ ~InsertedHasLine(inserted)
    /\ pc' = "returned"
    /\ molecule' = CURRENTMOLECULE
    /\ dfixTable' = _finalizeDfix(CURRENTMOLECULE)
    /\ CURRENTMOLECULE' = None
    /\ result' = None
    /\ UNCHANGED <<parser, lines, outer, inserted, delivered, raised, vocab, symm, dist>>

\* From Python 3.7 on (PEP 479) a StopIteration raised inside a generator reaches
\* the for loop as RuntimeError, which read does not catch.
StopIterationRuntimeError ==
    /\ pc = "loop"
    /\ ~InsertedHasLine(inserted)
    /\ pc' = "raised"
    /\ raised' = "RuntimeError"
    /\ UNCHANGED <<CURRENTMOLECULE, molecule, parser, lines, outer, inserted,
                   delivered, result, dfixTable, vocab, symm, dist>>

Next ==
    \/ ReadCall
    \/ LoopIteration
    \/ EndOfLines
    \/ StopIterationRuntimeError

Spec == Init /\ [][Next]_vars

(***************************************************************************)
(* The symmetry algebra on its own: an expression of three components is   *)
(* parsed (SymmetryElement), serialized (toShelxl) and parsed again, as    *)
(* applyLattSymm does (lines 48-49).  No parse call is in progress.        *)
(***************************************************************************)
\* The component expressions an input draws from: coefficients in {-1, 0, 1},
\* rows that name another axis or two axes, translations leading and trailing.
SymmComponents == {"X", "-X", "+Y", "-Y", "Z", "X-Y", "1/2-X", "1/2+Z", "Z+1/4"}

InitSymm ==
    /\ pc = "ready"
    /\ CURRENTMOLECULE = None
    /\ molecule = None
    /\ parser = None
    /\ lines = <<>>
    /\ outer = <<>>
    /\ inserted = None
    /\ delivered = <<>>
    /\ result = None
    /\ raised = NoExc
    /\ dfixTable = <<>>
    /\ vocab = VocabSymm
    /\ symm \in {[step |-> "input", symms |-> <<a, b, c>>, op |-> None, text |-> "",
                  back |-> None, lattSymm |-> None, copy |-> None, exc |-> NoExc] :
                     a \in SymmComponents, b \in SymmComponents, c \in SymmComponents}
    /\ dist = None

\* SymmetryElement(symms) (lines 11-28).
SymmParse ==
    /\ symm.step = "input"
    /\ symm' = [symm EXCEPT !.step = "parsed",
                            !.op = SymmetryElement(symm.symms, FALSE).val]
    /\ UNCHANGED <<readVars, dist>>

\* self.toShelxl() (line 48).
SymmSerialize ==
    /\ symm.step = "parsed"
    /\ symm' = [symm EXCEPT !.step = "serialized", !.text = toShelxl(symm.op).text]
    /\ UNCHANGED <<readVars, dist>>

\* SymmetryElement(text.split(',')) (line 49).
SymmReparse ==
    /\ symm.step = "serialized"
    /\ symm' = [symm EXCEPT !.step = "reparsed",
                            !.back = SymmetryElement(splitSep(symm.text, ","), FALSE).val]
    /\ UNCHANGED <<readVars, dist>>

\* The lattice-centering translations of all lattice types (lines 493-502).
LattOps == UNION {{LATTDICT[n][k] : k \in 1..Len(LATTDICT[n])} : n \in 1..7}

\* self.applyLattSymm(lattSymm) (lines 47-58) on the parsed operation.
SymmTranslate ==
    /\ symm.step = "parsed"
    /\ \E lattSymm \in LattOps :
       \E r \in {applyLattSymm(symm.op, lattSymm)} :
           symm' = [symm EXCEPT !.step = "translated", !.lattSymm = lattSymm,
                                !.copy = r.val, !.exc = r.exc]
    /\ UNCHANGED <<readVars, dist>>

NextSymm ==
    \/ SymmParse
    \/ SymmSerialize
    \/ SymmReparse
    \/ SymmTranslate

SpecSymm == InitSymm /\ [][NextSymm]_vars

(***************************************************************************)
(* Properties.  A step that delivers a line is a LoopIteration: delivered  *)
(* grows by the record of the line readlines yielded.                      *)
(***************************************************************************)
Last(s) == s[Len(s)]

\* The step is an iteration of the loop of line 290.
Delivering == pc = "loop" /\ Len(delivered') = Len(delivered) + 1

\* The line that iteration received from readlines.
Yielded == Last(delivered').line

\* reader.inserted once readlines has yielded that line: the inserted file has
\* moved on by one line when the line came from it.
AfterYield ==
    IF Last(delivered').src = OuterFile THEN inserted
    ELSE [inserted EXCEPT !.pos = @ + 1]

\* The classes of the structured kinds (lines 453-549).
StructuredClasses ==
    {"CellParser", "CerrParser", "SfacParser", "LattParser", "SymmParser",
     "DfixParser", "EqivParser"}

\* The accumulated body with the fields of the next physical line appended.
Continued(body, n) == body \o rstrip(n, {"\n"})

\* C1: for every structured kind, when a record awaits its continuation and the
\* next physical line is a continuation line (led by white space) that completes
\* a well-formed record, the fields of that line are appended to the accumulated
\* body before the finalizer runs: the Structure after the step is the one the
\* finalizer commits on the body with the line appended (CELL 1.54 10 10 10= and
\* 90 90 90 give the wavelength and six cell values), and the parse goes on.
C1_ContinuationAppended ==
    [][(/\ Delivering
        /\ parser.class \in StructuredClasses
        /\ Char(Yielded, 1) = " "
        /\ ~endswith(Continued(parser.body, Yielded), "=")
        /\ Finished(parser.class, CURRENTMOLECULE,
                    Continued(parser.body, Yielded)).exc = NoExc)
       => /\ pc' = "loop"
          /\ CURRENTMOLECULE' = Finished(parser.class, CURRENTMOLECULE,
                                         Continued(parser.body, Yielded)).mol]_vars

\* A word of letters only: the shape of an instruction keyword (an atom label
\* of the vocabularies carries a digit).
IsLetters(word) ==
    /\ Len(word) > 0
    /\ \A i \in 1..Len(word) :
           IndexIn(UpperCaseLetters, Char(word, i)) > 0
           \/ IndexIn(LowerCaseLetters, Char(word, i)) > 0

\* C2: a line whose leading keyword is not in the instruction table (XYZZ foo bar),
\* reaching the idle dispatcher, never aborts the parse: it yields an inert
\* pass-through token, the Structure is untouched and the dispatcher stays idle
\* for the lines after it.
C2_UnknownKeywordPassesThrough ==
    [][(/\ Delivering
        /\ parser.class = "LineParser"
        /\ IsLetters(Keyword(rstrip(Yielded, {"\n"})))
        /\ Keyword(rstrip(Yielded, {"\n"})) \notin DOMAIN COMMANDS)
       => /\ pc' = "loop"
          /\ parser' = LineParser
          /\ lines' = Append(lines, LineToken(rstrip(Yielded, {"\n"})))
          /\ CURRENTMOLECULE' = CURRENTMOLECULE]_vars

\* The table entry for the pair a, b looked up by the upper-cased names.
Lookup(table, a, b) ==
    IF upper(a) \in DOMAIN table /\ upper(b) \in DOMAIN table[upper(a)]
    THEN Some(table[upper(a)][upper(b)])
    ELSE None

\* Whether the restraint entry e names the unordered pair of p.
NamesPair(e, p) ==
    \E k \in 1..Len(e.pairs) :
        {upper(e.pairs[k][1]), upper(e.pairs[k][2])} = {upper(p[1]), upper(p[2])}

\* The (target, tolerance) of the first restraint of dfixs that names the pair of p,
\* the tolerance being the instruction's, or the default where it gave none.
FirstRegistered(dfixs, dfixErr, p) ==
    With(dfixs[CHOOSE i \in 1..Len(dfixs) :
                  /\ NamesPair(dfixs[i], p)
                  /\ \A j \in 1..(i - 1) : ~NamesPair(dfixs[j], p)], LAMBDA e :
        <<e.value, IF e.err = None THEN dfixErr ELSE e.err[1]>>)

\* C3: after finalize, the table lookup for every pair a distance restraint named,
\* in either direction, returns the (target, tolerance) of the first instruction
\* that named the pair.
C3_FirstWriteWins ==
    pc = "returned" =>
        \A i \in 1..Len(molecule.dfixs) :
            \A k \in 1..Len(molecule.dfixs[i].pairs) :
                With(molecule.dfixs[i].pairs[k], LAMBDA p :
                    /\ Lookup(dfixTable, p[1], p[2])
                           = Some(FirstRegistered(molecule.dfixs, molecule.dfixErr, p))
                    /\ Lookup(dfixTable, p[2], p[1])
                           = Some(FirstRegistered(molecule.dfixs, molecule.dfixErr, p)))

\* The determinant of a 3x3 matrix.
Det3(m) ==
    m[1][1] * (m[2][2] * m[3][3] - m[2][3] * m[3][2])
    - m[1][2] * (m[2][1] * m[3][3] - m[2][3] * m[3][1])
    + m[1][3] * (m[2][1] * m[3][2] - m[2][2] * m[3][1])

\* C4: serializing a parsed three-component operation (an invertible one, as a
\* symmetry operation is) with toShelxl and parsing the text again reproduces the
\* matrix and the translation; 1/2-X,+Y,1/2+Z parses to the matrix diag(-1, 1, 1)
\* and the translation (0.5, 0, 0.5).
C4_RoundTrip ==
    /\ (symm # None /\ symm.step = "reparsed" /\ Det3(symm.op.matrix) # 0)
           => /\ symm.back.matrix = symm.op.matrix
              /\ symm.back.trans = symm.op.trans
    /\ (symm # None /\ symm.step = "parsed" /\ symm.symms = <<"1/2-X", "+Y", "1/2+Z">>)
           => /\ symm.op.matrix = <<<<-1, 0, 0>>, <<0, 1, 0>>, <<0, 0, 1>>>>
              /\ symm.op.trans = <<Some(500), Some(0), Some(500)>>

\* Whether b is the centrosymmetric negation of a: matrix and translation sign-flipped.
IsNegationOf(b, a) ==
    /\ b.matrix = [i \in 1..Len(a.matrix) |->
                      [j \in 1..Len(a.matrix[i]) |-> -(a.matrix[i][j])]]
    /\ Len(b.trans) = Len(a.trans)
    /\ \A k \in 1..Len(a.trans) : b.trans[k] = Some(-(a.trans[k][1]))

\* C5: a symmetry instruction that is processed to its end appends exactly
\* (1 + L) * (1 + c) operations to the symmetry list, L the number of lattice
\* translations registered and c = 1 when the centrosymmetric flag is set, else 0;
\* with L = 0 and the flag set the two operations appended are the operation and
\* its negation (SYMM X,Y,Z: the identity and its negation).
C5_SymmExpansionCount ==
    [][(/\ Delivering
        /\ pc' = "loop"
        /\ Finalizes(parser, Rewritten(Yielded)) # None
        /\ Finalizes(parser, Rewritten(Yielded)).class = "SymmParser")
       => /\ Len(CURRENTMOLECULE'.symms)
                 = Len(CURRENTMOLECULE.symms)
                   + (1 + Len(CURRENTMOLECULE.lattOps))
                     * (1 + (IF CURRENTMOLECULE.centric THEN 1 ELSE 0))
          /\ SubSeq(CURRENTMOLECULE'.symms, 1, Len(CURRENTMOLECULE.symms))
                 = CURRENTMOLECULE.symms
          /\ (Len(CURRENTMOLECULE.lattOps) = 0 /\ CURRENTMOLECULE.centric)
                 => IsNegationOf(CURRENTMOLECULE'.symms[Len(CURRENTMOLECULE.symms) + 2],
                                 CURRENTMOLECULE'.symms[Len(CURRENTMOLECULE.symms) + 1])
          /\ Finalizes(parser, Rewritten(Yielded)).body = "SYMM X,Y,Z"
                 => CURRENTMOLECULE'.symms[Len(CURRENTMOLECULE.symms) + 1].matrix
                        = <<<<1, 0, 0>>, <<0, 1, 0>>, <<0, 0, 1>>>>]_vars

\* C5's case: LATT 1 has registered no lattice translation and set the flag, and
\* SYMM X,Y,Z has then left two operations, the identity and its negation.
C5_Witness ==
    /\ pc = "loop"
    /\ Len(delivered) = 2
    /\ delivered[1].line = "LATT 1\n"
    /\ delivered[2].line = "SYMM X,Y,Z\n"
    /\ CURRENTMOLECULE.centric
    /\ CURRENTMOLECULE.lattOps = <<>>
    /\ Len(CURRENTMOLECULE.symms) = 2
    /\ CURRENTMOLECULE.symms[2].matrix = <<<<-1, 0, 0>>, <<0, -1, 0>>, <<0, 0, -1>>>>

\* What is left of a symmetry component once its x, y and z terms are taken out
\* (lines 83-88): the translation residual.
Residual(component) ==
    _partition(_partition(_partition(replace(lower(component), " ", ""), "x")[2],
                          "y")[2], "z")[2]

\* An a/b fraction of integers with b not zero.
IsFraction(s) ==
    With(splitSep(s, "/"), LAMBDA parts :
        Len(parts) = 2 /\ IsInt(parts[1]) /\ IsInt(parts[2]) /\ IntVal(parts[2]) # 0)

\* Whether some component has a residual that is neither a decimal nor a fraction.
MalformedComponents(components) ==
    \E k \in 1..Len(components) :
        /\ Len(Residual(components[k])) > 0
        /\ ~IsFloat(Residual(components[k]))
        /\ ~IsFraction(Residual(components[k]))

\* Whether a field of the record that must be numeric does not read as a number.
MalformedNumeric(class, body) ==
    With(split(body), LAMBDA w :
        CASE class \in {"CellParser", "CerrParser", "AtomParser"} ->
                 \E k \in 2..Len(w) : ~IsFloat(w[k])
          [] class = "LattParser" -> Len(w) > 1 /\ ~IsFloat(w[Len(w)])
          [] class = "DfixParser" -> Len(w) > 1 /\ ~IsFloat(w[2])
          [] class = "SymmParser" ->
                 MalformedComponents(splitSep(SubSeq(body, 5, Len(body)), ","))
          [] class = "EqivParser" ->
                 Len(w) > 2 /\ MalformedComponents(splitSep(join(SubSeq(w, 3, Len(w)), " "), ","))
          [] OTHER -> FALSE)

\* C6: a record with a field that must be numeric and does not read as a number
\* makes the parse call abort, and nothing is committed for it.
C6_MalformedNumberAborts ==
    [][(/\ Delivering
        /\ Finalizes(parser, Rewritten(Yielded)) # None
        /\ MalformedNumeric(Finalizes(parser, Rewritten(Yielded)).class,
                            Finalizes(parser, Rewritten(Yielded)).body))
       => /\ pc' = "raised"
          /\ CURRENTMOLECULE' = CURRENTMOLECULE]_vars

\* C7: the parse call hands the finalized Structure to its caller.
C7_ReadReturnsStructure ==
    pc = "returned" => result = Some(molecule)

\* C8: on every exit of the parse call, by return or by an error, the current
\* structure reference is cleared.
C8_CurrentMoleculeCleared ==
    pc \in {"returned", "raised"} => CURRENTMOLECULE = None

RECURSIVE Expand(_, _, _)
\* The lines of the file name with the given content, from line i on, every
\* directive whose file opens followed by the lines of that file, expanded alike.
Expand(name, content, i) ==
    IF i > Len(content) THEN <<>>
    ELSE <<[line |-> content[i], src |-> name, idx |-> i]>>
         \o (IF IsDirective(content[i]) /\ OpenOutcome(InsertName(content[i])) = "file"
             THEN Expand(InsertName(content[i]), FileLines(InsertName(content[i])), 1)
             ELSE <<>>)
         \o Expand(name, content, i + 1)

IsPrefix(s, t) == Len(s) <= Len(t) /\ SubSeq(t, 1, Len(s)) = s

\* C9: the lines are delivered in splice order: after a directive whose file opens,
\* wherever the directive stands, that file's lines up to its end, then the
\* interrupted source from the line after the directive; none skipped, none twice.
C9_SpliceOrder ==
    /\ IsPrefix(delivered, Expand(OuterFile, outer, 1))
    /\ (pc = "returned" \/ raised = "RuntimeError")
           => delivered = Expand(OuterFile, outer, 1)

\* C10 as amended: a directive that names a file that does not exist, reaching the
\* idle dispatcher, does not abort the parse; nothing is spliced in and the reader
\* stays where it was, so the active source goes on with its next line; the
\* directive line yields an inert token and the Structure is untouched.
C10_MissingFileRecoverable ==
    [][(/\ Delivering
        /\ parser.class = "LineParser"
        /\ IsDirective(Yielded)
        /\ OpenOutcome(InsertName(Yielded)) = "FileNotFoundError")
       => /\ pc' = "loop"
          /\ raised' = NoExc
          /\ inserted' = AfterYield
          /\ parser' = LineParser
          /\ lines' = Append(lines, LineToken("+    " \o InsertName(Yielded)))
          /\ CURRENTMOLECULE' = CURRENTMOLECULE]_vars

\* C10's case: b.ins is spliced in, its first line names a missing file, and the
\* parse is still in its loop with b.ins as the active source at its next line.
C10_Witness ==
    /\ pc = "loop"
    /\ Len(delivered) > 1
    /\ Last(delivered) = [line |-> "+none.ins\n", src |-> "b.ins", idx |-> 1]
    /\ inserted = [name |-> "b.ins", pos |-> 1]
    /\ InsertedHasLine(inserted)
    /\ parser = LineParser
    /\ Last(lines) = LineToken("+    none.ins")

\* C10 as stated: every directive whose file cannot be opened, whatever the reason
\* and whatever the dispatcher is doing, leaves the parse running, the reader where
\* it was, and an inert token.
C10_UnopenableFileRecoverable ==
    [][(/\ Delivering
        /\ IsDirective(Yielded)
        /\ OpenOutcome(InsertName(Yielded)) # "file")
       => /\ pc' = "loop"
          /\ inserted' = AfterYield
          /\ lines' = Append(lines, LineToken("+    " \o InsertName(Yielded)))]_vars

(***************************************************************************)
(* End of input.                                                           *)
(***************************************************************************)
\* The step is the one readlines takes when both files are at their end
\* (lines 600-601): no line is delivered and the loop is left.
SourceExhausted == pc = "loop" /\ pc' # "loop" /\ delivered' = delivered

\* C11: once the line source is exhausted the line loop ends normally: finalize
\* runs on the current molecule (the restraint table is built from it), the call
\* returns and no exception leaves it.
C11_ExhaustionEndsNormally ==
    [][SourceExhausted
       => /\ pc' = "returned"
          /\ raised' = NoExc
          /\ molecule' = CURRENTMOLECULE
          /\ dfixTable' = _finalizeDfix(CURRENTMOLECULE)]_vars

(***************************************************************************)
(* Lattice type.                                                           *)
(***************************************************************************)
\* The number of lattice-centering translations of each lattice type 1..7.
ExpectedLattCount == <<0, 1, 0, 3, 1, 1, 1>>

Abs(n) == IF n < 0 THEN -n ELSE n

\* The line is a complete LATT instruction with one integer code.
IsLattLine(n) ==
    /\ Keyword(rstrip(n, {"\n"})) = "LATT"
    /\ Len(split(n)) = 2
    /\ IsInt(split(n)[2])

\* The code N of such a line.
LattCode(n) == IntVal(split(n)[2])

\* C12: a LATT line given to the idle dispatcher reaches the lattice-type
\* sub-parser: for every code N with |N| in 1..7 the parse goes on, the dispatcher
\* is idle again, the line is handed back as a ShelxlLine and the molecule's
\* lattice-translation list has 0, 1, 0, 3, 1, 1, 1 elements for |N| = 1..7.
C12_LattTable ==
    [][(/\ Delivering
        /\ parser.class = "LineParser"
        /\ IsLattLine(Yielded)
        /\ Abs(LattCode(Yielded)) \in 1..7)
       => /\ pc' = "loop"
          /\ parser' = LineParser
          /\ lines' = Append(lines, LineToken(rstrip(Yielded, {"\n"})))
          /\ Len(CURRENTMOLECULE'.lattOps) = ExpectedLattCount[Abs(LattCode(Yielded))]]_vars

\* A LATT -4 line has been processed and three translations are registered.
C12_Witness ==
    /\ pc = "loop"
    /\ delivered # <<>>
    /\ Last(delivered).line = "LATT -4\n"
    /\ Len(CURRENTMOLECULE.lattOps) = 3

(***************************************************************************)
(* ShelxlMolecule.distance (lines 161-176) on its own.  No parse call is   *)
(* in progress.  Lengths, coordinates and cosines are numbers in units of  *)
(* 1/Scale; a product is rounded down to that unit.                        *)
(***************************************************************************)
\* The product of two numbers.
Mul(u, v) == (u * v) \div Scale

RECURSIVE ISqrtIn(_, _, _)
\* The largest r in lo..hi with r * r <= n, by bisection.
ISqrtIn(n, lo, hi) ==
    IF lo = hi THEN lo
    ELSE With((lo + hi + 1) \div 2, LAMBDA mid :
             IF mid * mid <= n THEN ISqrtIn(n, mid, hi) ELSE ISqrtIn(n, lo, mid - 1))

\* v ** .5 (line 176) for v >= 0, rounded down.  The root is sought up to 46, whose
\* square in units of 1/Scale^2 still fits a 32-bit integer.
Sqrt(v) == ISqrtIn(v * Scale, 0, 46 * Scale)

\* np.cos(angle / 180. * np.pi) (lines 171-175) for the angles of the cells below.
CosDeg(angle) ==
    CASE angle = 60 * Scale -> Scale \div 2
      [] angle = 90 * Scale -> 0
      [] angle = 120 * Scale -> -(Scale \div 2)

\* A remainder with the sign of the dividend, as C's fmod gives it.
TruncatedDisplacement(frac1, frac2) ==
    With((frac2 + 199 * (Scale \div 2)) - frac1, LAMBDA diff :
        (IF diff < 0 THEN -((-diff) % Scale) ELSE diff % Scale) - Scale \div 2)

\* (xx - x) % 1 - 0.5 with xx = atom2.frac + 99.5 (lines 164 and 168-170): Python's
\* remainder has the sign of the divisor.
Displacement(frac1, frac2) ==
    (((frac2 + 199 * (Scale \div 2)) - frac1) % Scale) - Scale \div 2

\* distance(atom1, atom2) (lines 161-176) as [exc, d, val]: d the three per-axis
\* displacements, val the distance.  A molecule whose cell is still the empty
\* list of line 152 fails at the unpacking of line 171.
distance(self, atom1, atom2) ==
    With([k \in 1..3 |-> Displacement(atom1.frac[k], atom2.frac[k])], LAMBDA d :
        IF Len(self.cell) # 6 THEN [exc |-> "ValueError", d |-> d, val |-> None]
        ELSE
        With(self.cell, LAMBDA c :
        With(Mul(Mul(Mul(c[1], c[1]), d[1]), d[1])
             + Mul(Mul(Mul(c[2], c[2]), d[2]), d[2])
             + Mul(Mul(Mul(c[3], c[3]), d[3]), d[3])
             + Mul(Mul(Mul(Mul(2 * c[2], c[3]), CosDeg(c[4])), d[2]), d[3])
             + Mul(Mul(Mul(Mul(2 * c[1], c[3]), CosDeg(c[5])), d[1]), d[3])
             + Mul(Mul(Mul(Mul(2 * c[1], c[2]), CosDeg(c[6])), d[1]), d[2]), LAMBDA dd :
            [exc |-> NoExc, d |-> d, val |-> IF dd < 0 THEN None ELSE Some(Sqrt(dd))])))

\* The cells a molecule is given: cubic, hexagonal and rhombohedral.
CubicCell == <<10 * Scale, 10 * Scale, 10 * Scale, 90 * Scale, 90 * Scale, 90 * Scale>>
Cells ==
    {CubicCell,
     <<8 * Scale, 8 * Scale, 10 * Scale, 90 * Scale, 90 * Scale, 120 * Scale>>,
     <<10 * Scale, 10 * Scale, 10 * Scale, 60 * Scale, 60 * Scale, 60 * Scale>>}

\* Fractional coordinates inside [0, 1), on its edges, and far outside it on
\* either side (-99.75, -1.25, -0.5, 0, 0.25, 0.5, 0.999, 1, 100.3, 250).
FracValues ==
    {-399 * (Scale \div 4), -5 * (Scale \div 4), -(Scale \div 2), 0, Scale \div 4, Scale \div 2,
     Scale - 1, Scale, 100 * Scale + 3 * (Scale \div 10), 250 * Scale}

\* The positions of the atoms.
FracPoints ==
    {<<x, y, z>> : x \in FracValues, y \in {0, Scale \div 2}, z \in {0, -(Scale \div 4)}}

InitDistance ==
    /\ pc = "ready"
    /\ CURRENTMOLECULE = None
    /\ molecule = None
    /\ parser = None
    /\ lines = <<>>
    /\ outer = <<>>
    /\ inserted = None
    /\ delivered = <<>>
    /\ result = None
    /\ raised = NoExc
    /\ dfixTable = <<>>
    /\ vocab = VocabAtoms
    /\ symm = None
    /\ dist \in {[step |-> "input", mol |-> ShelxlMolecule,
                  atom1 |-> [frac |-> p], atom2 |-> [frac |-> q],
                  d |-> None, val |-> None, exc |-> NoExc] :
                     p \in FracPoints, q \in FracPoints}

\* setCell(cell) (lines 184-185).
DistanceSetCell ==
    /\ dist.step = "input"
    /\ dist.mol.cell = <<>>
    /\ \E cell \in Cells : dist' = [dist EXCEPT !.mol.cell = cell]
    /\ UNCHANGED <<readVars, symm>>

\* distance(atom1, atom2) (lines 161-176).
DistanceCall ==
    /\ dist.step = "input"
    /\ \E r \in {distance(dist.mol, dist.atom1, dist.atom2)} :
           dist' = [dist EXCEPT !.step = "done", !.d = r.d, !.val = r.val, !.exc = r.exc]
    /\ UNCHANGED <<readVars, symm>>

NextDistance ==
    \/ DistanceSetCell
    \/ DistanceCall

SpecDistance == InitDistance /\ [][NextDistance]_vars

\* The number is a whole number.
IsWhole(v) == v % Scale = 0

\* C13: for every pair of fractional coordinates, inside [0, 1) or far outside it,
\* each per-axis displacement d that distance computes has -0.5 <= d < 0.5 and
\* differs from frac2 - frac1 by a whole number; in the cubic cell of edge 10 the
\* atoms at (0, 0, 0) and (0.5, 0, 0) are 5.0 apart.
C13_MinimumImage ==
    (dist.step = "done" /\ dist.exc = NoExc)
    => /\ \A k \in 1..3 :
             /\ -(Scale \div 2) <= dist.d[k]
             /\ dist.d[k] < Scale \div 2
             /\ IsWhole(dist.d[k] - (dist.atom2.frac[k] - dist.atom1.frac[k]))
       /\ (/\ dist.mol.cell = CubicCell
           /\ dist.atom1.frac = <<0, 0, 0>>
           /\ dist.atom2.frac = <<Scale \div 2, 0, 0>>)
          => dist.val = Some(5 * Scale)

\* The distance has been computed for a first atom at x = 100.3 and a second at
\* x = 0: the displacement along x is -0.3.
C13_Witness ==
    /\ dist.step = "done"
    /\ dist.exc = NoExc
    /\ dist.atom1.frac[1] = 100 * Scale + 3 * (Scale \div 10)
    /\ dist.atom2.frac[1] = 0
    /\ dist.d[1] = -3 * (Scale \div 10)

(***************************************************************************)
(* Lattice-translated copies.                                              *)
(***************************************************************************)
\* The raw component-wise sum of two translation vectors.
TransSum(t, u) == [k \in 1..3 |-> Some(t[k][1] + u[k][1])]

\* C14: for every symmetry operation with coefficients in {-1, 0, 1} (an
\* invertible one, as a symmetry operation is) and every lattice operation,
\* applyLattSymm returns without raising an operation whose matrix is the
\* original's matrix and whose translation is the component-wise sum of the two
\* translations, not reduced modulo 1.
C14_LattTranslateEquivalence ==
    (symm.step = "translated" /\ Det3(symm.op.matrix) # 0)
    => /\ symm.exc = NoExc
       /\ symm.copy.matrix = symm.op.matrix
       /\ symm.copy.trans = TransSum(symm.op.trans, symm.lattSymm.trans)

\* C15: when a symmetry instruction is processed to its end with the
\* centrosymmetric flag set and L >= 1 lattice translations registered, the L
\* operations appended after the negated element are its lattice-translated copies:
\* each has the negated element's matrix, and as translation the negated
\* element's translation plus the lattice translation.
C15_CentricLatticeCopies ==
    [][(/\ Delivering
        /\ pc' = "loop"
        /\ Finalizes(parser, Rewritten(Yielded)) # None
        /\ Finalizes(parser, Rewritten(Yielded)).class = "SymmParser"
        /\ CURRENTMOLECULE.centric
        /\ Len(CURRENTMOLECULE.lattOps) >= 1)
       => LET n == Len(CURRENTMOLECULE.symms)
              L == Len(CURRENTMOLECULE.lattOps)
              negated == CURRENTMOLECULE'.symms[n + L + 2]
          IN  /\ IsNegationOf(negated, CURRENTMOLECULE'.symms[n + 1])
              /\ \A k \in 1..L :
                    /\ CURRENTMOLECULE'.symms[n + L + 2 + k].matrix = negated.matrix
                    /\ CURRENTMOLECULE'.symms[n + L + 2 + k].trans
                           = TransSum(negated.trans, CURRENTMOLECULE.lattOps[k].trans)]_vars

\* C16: whenever a LATT instruction with a code N of magnitude 1..7 has been
\* processed, whatever LATT instructions came before it, the centrosymmetric
\* flag is true if N is positive and false if N is negative, and the
\* lattice-translation list is the table entry of |N|.
C16_LattSignSelectsFlag ==
    [][(/\ Delivering
        /\ parser.class = "LineParser"
        /\ IsLattLine(Yielded)
        /\ Abs(LattCode(Yielded)) \in 1..7)
       => /\ pc' = "loop"
          /\ CURRENTMOLECULE'.centric = (LattCode(Yielded) > 0)
          /\ CURRENTMOLECULE'.lattOps = LATTDICT[Abs(LattCode(Yielded))]]_vars

(***************************************************************************)
(* Distance restraints.                                                    *)
(***************************************************************************)
\* C17: in the table finalize built, for every pair of atom names a distance
\* restraint named, in whatever letter case, the entry of b in the row of a
\* exists exactly when the entry of a in the row of b exists, and the two hold
\* the same (target, tolerance); rows and entries are looked up by the
\* upper-cased names.
C17_SymmetricAdjacency ==
    pc = "returned" =>
        \A i \in 1..Len(molecule.dfixs) :
            \A k \in 1..Len(molecule.dfixs[i].pairs) :
                With(molecule.dfixs[i].pairs[k], LAMBDA p :
                    Lookup(dfixTable, p[1], p[2]) = Lookup(dfixTable, p[2], p[1]))

\* The pair p is named by no entry of dfixs before entry i.
FirstNamedBy(dfixs, i, p) == \A j \in 1..(i - 1) : ~NamesPair(dfixs[j], p)

\* C18: in the table finalize built, the tolerance stored for a pair of a distance
\* restraint (the first to name the pair) is the tolerance the instruction gave
\* as its second token, whatever its value, zero included, and the default of
\* the molecule when the instruction gave none.
C18_ToleranceStored ==
    pc = "returned" =>
        \A i \in 1..Len(molecule.dfixs) :
            \A k \in 1..Len(molecule.dfixs[i].pairs) :
                With(molecule.dfixs[i].pairs[k], LAMBDA p :
                    FirstNamedBy(molecule.dfixs, i, p)
                    => Lookup(dfixTable, p[2], p[1])
                           = Some(<<molecule.dfixs[i].value,
                                    IF molecule.dfixs[i].err = None THEN molecule.dfixErr
                                    ELSE molecule.dfixs[i].err[1]>>))

(***************************************************************************)
(* Atom records over several lines.                                        *)
(***************************************************************************)
\* The number of atoms and peaks a molecule holds.
AtomCount(mol) == Len(mol.atoms) + Len(mol.qPeaks)

\* C19: while an atom record awaits its continuation, a continuation line (led by
\* white space) that itself ends with '=' is appended without its '=', the
\* dispatcher goes on accumulating and nothing is committed; a continuation line
\* that completes a well-formed record commits exactly one atom, built from the
\* accumulated body and that line, and leaves the dispatcher idle.
C19_RecursiveContinuation ==
    [][(/\ Delivering
        /\ parser.class = "AtomParser"
        /\ Char(Yielded, 1) = " ")
       => /\ endswith(rstrip(Yielded, {"\n"}), "=")
             => /\ pc' = "loop"
                /\ parser' = [class |-> "AtomParser",
                              body |-> parser.body
                                       \o SubSeq(Yielded, 1, Len(rstrip(Yielded, {"\n"})) - 1)]
                /\ CURRENTMOLECULE' = CURRENTMOLECULE
                /\ lines' = lines
          /\ (/\ ~endswith(rstrip(Yielded, {"\n"}), "=")
              /\ ShelxlAtom(CURRENTMOLECULE, parser.body \o Yielded).exc = NoExc)
             => /\ pc' = "loop"
                /\ parser' = LineParser
                /\ CURRENTMOLECULE' = ShelxlAtom(CURRENTMOLECULE, parser.body \o Yielded).mol
                /\ AtomCount(CURRENTMOLECULE') = AtomCount(CURRENTMOLECULE) + 1]_vars

(***************************************************************************)
(* The continuation marker.                                                *)
(***************************************************************************)
\* The line without its line end and the white space before it.
Stripped(n) == rstrip(n, Whitespace)

\* The class that takes a line given to the idle dispatcher: the class of the
\* keyword for a structured line, AtomParser for a line with no known keyword.
OpeningClass(n) ==
    IF Keyword(rstrip(n, {"\n"})) \in DOMAIN COMMANDS
    THEN COMMANDS[Keyword(rstrip(n, {"\n"}))]
    ELSE "AtomParser"

\* C20: a structured or atom line given to the idle dispatcher whose last
\* character other than white space is '=', with spaces between the '=' and the
\* line end, opens the accumulating state as a line ending in '=' does: the
\* sub-parser of its kind holds the line up to the '=', the parse goes on, and
\* nothing is committed and no token is produced from that line.
C20_MarkerBeforeSpaces ==
    [][(/\ Delivering
        /\ parser.class = "LineParser"
        /\ Len(Stripped(Yielded)) > 0
        /\ Char(Yielded, 1) \notin {" ", "+"}
        /\ OpeningClass(Yielded) # "doNothing"
        /\ endswith(Stripped(Yielded), "=")
        /\ ~endswith(rstrip(Yielded, {"\n"}), "="))
       => /\ pc' = "loop"
          /\ parser' = [class |-> OpeningClass(Yielded),
                        body |-> SubSeq(Yielded, 1, Len(Stripped(Yielded)) - 1)]
          /\ CURRENTMOLECULE' = CURRENTMOLECULE
          /\ lines' = lines]_vars

(***************************************************************************)
(* The atom list and the peak list.                                        *)
(***************************************************************************)
\* The name of the record with that body: its first word.
RecordName(body) == split(body)[1]

\* C21: of a line that is processed, only an atom record that is committed
\* changes the atom list or the peak list: it is appended once, at the end of
\* the peak list when its name begins with Q or q and at the end of the atom
\* list otherwise, and the other list stays as it was; a line of any other
\* instruction kind leaves both lists as they were.
C21_AtomPeakPartition ==
    [][Delivering
       => LET rec == Finalizes(parser, Rewritten(Yielded))
              old == CURRENTMOLECULE
              new == CURRENTMOLECULE'
          IN  IF rec # None /\ rec.class = "AtomParser" /\ pc' = "loop"
              THEN IF upper(Char(RecordName(rec.body), 1)) = "Q"
                   THEN /\ Len(new.qPeaks) = Len(old.qPeaks) + 1
                        /\ SubSeq(new.qPeaks, 1, Len(old.qPeaks)) = old.qPeaks
                        /\ Last(new.qPeaks).name = RecordName(rec.body)
                        /\ new.atoms = old.atoms
                   ELSE /\ Len(new.atoms) = Len(old.atoms) + 1
                        /\ SubSeq(new.atoms, 1, Len(old.atoms)) = old.atoms
                        /\ Last(new.atoms).name = RecordName(rec.body)
                        /\ new.qPeaks = old.qPeaks
              ELSE /\ new.atoms = old.atoms
                   /\ new.qPeaks = old.qPeaks]_vars

(***************************************************************************)
(* Records that are open when the input ends.                              *)
(***************************************************************************)
\* What finalizing the record a sub-parser holds commits: ShelxlAtom for an atom
\* record, the finished method of its class for a structured one.
CommitOf(self, mol) ==
    IF self.class = "AtomParser"
    THEN [exc |-> ShelxlAtom(mol, self.body).exc, mol |-> ShelxlAtom(mol, self.body).mol]
    ELSE Finished(self.class, mol, self.body)

\* C22: a record that is still open when the line source is exhausted, its body
\* well-formed, is finalized before the parse call returns: the Structure the
\* call leaves holds what the finalizer of its kind commits on the accumulated
\* body.
C22_OpenRecordCommittedAtEnd ==
    [][(/\ SourceExhausted
        /\ pc' = "returned"
        /\ parser.class \in StructuredClasses \cup {"AtomParser"}
        /\ CommitOf(parser, CURRENTMOLECULE).exc = NoExc)
       => molecule' = CommitOf(parser, CURRENTMOLECULE).mol]_vars

====
